---------------------------- MODULE Spec2Model ----------------------------
(***************************************************************************)
(* A model of slurm-rs (src/src/lib.rs): the Slurm and SlurmDB client      *)
(* handles, their constructors, the internal request builder, the endpoint *)
(* methods and the serde decoding of the response envelopes.               *)
(*                                                                         *)
(* Text is modelled as a sequence of lexical tokens: a token is a string   *)
(* with no delimiter inside ("http://h", "api", "n0"), and the delimiters  *)
(* "/", "?", "#", "=", "&", "..", "." and the control character "\n" are   *)
(* tokens of their own.  "http://h/api/" is <<"http://h","/","api","/">>.  *)
(***************************************************************************)
EXTENDS Integers, Sequences, FiniteSets, TLC

VARIABLES
    env,      \* the process environment: variable name -> text, or Unset
    proc,     \* "start" | "ready" | "panicked": the constructing process
    panic,    \* the panic message of a panicked process (NoPanic otherwise)
    client,   \* the client handle (NoClient before construction)
    calls,    \* task -> the endpoint call that task is running
    rb,       \* the last use of the request builder: its arguments and result
    dec       \* the last use of the response decoder: its input and result

vars == <<env, proc, panic, client, calls, rb, dec>>

----------------------------------------------------------------------------
(* Text helpers *)

IsPrefix(p, s) == Len(p) <= Len(s) /\ SubSeq(s, 1, Len(p)) = p

RECURSIVE IndexOf(_, _, _)
\* The first position >= i of token d in s, or 0.
IndexOf(s, d, i) ==
    IF i > Len(s) THEN 0
    ELSE IF s[i] = d THEN i
    ELSE IndexOf(s, d, i + 1)

RECURSIVE SplitOn(_, _)
\* s cut at every token d: "a/b/" -> <<"a">>, <<"b">>, <<>>.
SplitOn(s, d) ==
    LET i == IndexOf(s, d, 1)
    IN  IF i = 0 THEN <<s>>
        ELSE <<SubSeq(s, 1, i - 1)>> \o SplitOn(SubSeq(s, i + 1, Len(s)), d)

RECURSIVE JoinWith(_, _)
\* Every segment of segs preceded by token d: the path text of a URL.
JoinWith(segs, d) ==
    IF segs = <<>> THEN <<>>
    ELSE <<d>> \o Head(segs) \o JoinWith(Tail(segs), d)

----------------------------------------------------------------------------
(* Program constants *)

SLURM_USER == <<"X","-","S","L","U","R","M","-","U","S","E","R","-","N","A","M","E">>
SLURM_TOKEN == <<"X","-","S","L","U","R","M","-","U","S","E","R","-","T","O","K","E","N">>
SLURM_API_VERSION == <<"v0.0.38">>
CONTENT_TYPE == <<"c","o","n","t","e","n","t","-","t","y","p","e">>

Unset == [set |-> FALSE, text |-> <<>>]
SetTo(s) == [set |-> TRUE, text |-> s]
NoPanic == <<>>
NoClient == [kind |-> "none", user |-> <<>>, token |-> <<>>, endpoint |-> <<>>]

\* env-variable names read by new_from_env, in the order they are read
EnvVars == <<"X_SLURM_ENDPOINT", "X_SLURM_USER_NAME", "X_SLURM_USER_TOKEN">>

SlurmKinds == {"Slurm", "SlurmDB"}

----------------------------------------------------------------------------
(* Url::parse and Url::join, as lib.rs uses them *)

\* scheme://authority prefixes of hierarchical ("special") URLs
Origins == {"http://h"}
\* well-formed URLs that cannot be a base (no hierarchical path)
OpaqueUrls == {"mailto:a"}

BadUrl == [ok |-> FALSE, base |-> FALSE, origin |-> "", path |-> <<>>,
           query |-> <<>>, fragment |-> <<>>, hasQuery |-> FALSE, hasFragment |-> FALSE]

\* A relative reference cut into path text, query and fragment.
RefParts(ref) ==
    LET h == IndexOf(ref, "#", 1)
        noFrag == IF h = 0 THEN ref ELSE SubSeq(ref, 1, h - 1)
        q == IndexOf(noFrag, "?", 1)
    IN  [path |-> IF q = 0 THEN noFrag ELSE SubSeq(noFrag, 1, q - 1),
         hasQuery |-> q # 0,
         query |-> IF q = 0 THEN <<>> ELSE SubSeq(noFrag, q + 1, Len(noFrag)),
         hasFragment |-> h # 0,
         fragment |-> IF h = 0 THEN <<>> ELSE SubSeq(ref, h + 1, Len(ref))]

RECURSIVE PushSegments(_, _)
\* The URL parser's path state: the segments segs appended to path acc, "."
\* dropped and ".." removing the segment before it; a trailing dot segment
\* leaves an empty last segment.
PushSegments(acc, segs) ==
    IF segs = <<>> THEN acc
    ELSE LET s == Head(segs)
             last == Len(segs) = 1
             popped == IF acc = <<>> THEN <<>> ELSE SubSeq(acc, 1, Len(acc) - 1)
             nxt == IF s = <<"..">> THEN (IF last THEN Append(popped, <<>>) ELSE popped)
                    ELSE IF s = <<".">> THEN (IF last THEN Append(acc, <<>>) ELSE acc)
                    ELSE Append(acc, s)
         IN  PushSegments(nxt, Tail(segs))

\* Url::parse(text): an absolute URL, or an error.
UrlParse(text) ==
    IF text = <<>> THEN BadUrl
    ELSE IF Head(text) \in OpaqueUrls /\ Len(text) = 1
    THEN [BadUrl EXCEPT !.ok = TRUE, !.origin = Head(text)]
    ELSE IF Head(text) \in Origins
    THEN LET parts == RefParts(Tail(text))
             \* the path text is empty or starts with "/"
             segs == IF parts.path = <<>> THEN << <<>> >>
                     ELSE Tail(SplitOn(parts.path, "/"))
         IN  IF parts.path # <<>> /\ Head(parts.path) # "/" THEN BadUrl
             ELSE [ok |-> TRUE, base |-> TRUE, origin |-> Head(text),
                   path |-> PushSegments(<<>>, segs),
                   query |-> parts.query, fragment |-> parts.fragment,
                   hasQuery |-> parts.hasQuery, hasFragment |-> parts.hasFragment]
    ELSE BadUrl   \* a relative URL without a base

\* base.join(ref) for a relative-path reference ref (every reference the
\* request builder makes starts with the segment "slurm").
UrlJoin(base, ref) ==
    IF ~base.base THEN BadUrl   \* cannot-be-a-base base
    ELSE LET parts == RefParts(ref)
             kept == SubSeq(base.path, 1, Len(base.path) - 1)
         IN  [ok |-> TRUE, base |-> TRUE, origin |-> base.origin,
              path |-> PushSegments(kept, SplitOn(parts.path, "/")),
              query |-> parts.query, fragment |-> parts.fragment,
              hasQuery |-> parts.hasQuery, hasFragment |-> parts.hasFragment]

\* Url::as_str: the serialization of a URL.
UrlText(u) ==
    <<u.origin>> \o JoinWith(u.path, "/")
        \o (IF u.hasQuery THEN <<"?">> \o u.query ELSE <<>>)
        \o (IF u.hasFragment THEN <<"#">> \o u.fragment ELSE <<>>)

----------------------------------------------------------------------------
(* Headers *)

UpperToLower ==
    [c \in {"X","S","L","U","R","M","E","N","A","T","O","K"} |->
        CASE c = "X" -> "x" [] c = "S" -> "s" [] c = "L" -> "l" [] c = "U" -> "u"
          [] c = "R" -> "r" [] c = "M" -> "m" [] c = "E" -> "e" [] c = "N" -> "n"
          [] c = "A" -> "a" [] c = "T" -> "t" [] c = "O" -> "o" [] c = "K" -> "k"]

\* str::to_lowercase
ToLowercase(s) ==
    [i \in 1..Len(s) |-> IF s[i] \in DOMAIN UpperToLower THEN UpperToLower[s[i]] ELSE s[i]]

\* HeaderName::from_bytes: the name, or an error on a byte no token may hold
HeaderNameFromBytes(s) ==
    [ok |-> s # <<>> /\ \A i \in 1..Len(s) : s[i] \notin {" ", "\n", "\r", ":"},
     name |-> ToLowercase(s)]

\* control characters, which no header value may hold
ControlTokens == {"\n", "\r"}

\* a header value taken unchecked
HeaderValueUnchecked(s) == [ok |-> TRUE, value |-> s]

\* HeaderValue::from_str: the value, or an error on a control character
HeaderValueFromStr(s) ==
    [ok |-> \A i \in 1..Len(s) : s[i] \notin ControlTokens, value |-> s]

----------------------------------------------------------------------------
(* Request bodies and serde_json::to_vec *)

Unit == [t |-> "unit", v |-> <<>>]
NoBody == [some |-> FALSE, text |-> <<>>]

\* serde_json serialization of a body value: () is null, a string is quoted,
\* a map with a non-string key is an error.
ToJson(b) ==
    CASE b.t = "unit" -> [ok |-> TRUE, text |-> <<"null">>]
      [] b.t = "str" -> [ok |-> TRUE, text |-> <<"\"">> \o b.v \o <<"\"">>]
      [] OTHER -> [ok |-> FALSE, text |-> <<>>]

----------------------------------------------------------------------------
(* The request builder: Slurm::request and SlurmDB::request *)

NoQuery == [some |-> FALSE, pairs |-> <<>>]
SomeQuery(ps) == [some |-> TRUE, pairs |-> ps]

NoRequest == [method |-> "", url |-> BadUrl, headers |-> <<>>, body |-> NoBody]
BuildErr(why) == [ok |-> FALSE, err |-> why, req |-> NoRequest]

RECURSIVE UrlEncoded(_)
\* serde_urlencoded of a list of (key, value) pairs: k=v&k=v
UrlEncoded(ps) ==
    IF ps = <<>> THEN <<>>
    ELSE <<Head(ps)[1], "=", Head(ps)[2]>>
            \o (IF Len(ps) > 1 THEN <<"&">> ELSE <<>>) \o UrlEncoded(Tail(ps))

\* RequestBuilder::query: the pairs appended to the URL's query; an empty
\* query is removed.
WithQuery(u, ps) ==
    LET q == (IF u.hasQuery /\ u.query # <<>> /\ ps # <<>> THEN u.query \o <<"&">> ELSE u.query)
                \o UrlEncoded(ps)
    IN  [u EXCEPT !.hasQuery = q # <<>>, !.query = q]

\* the test without DELETE
HasJsonBodyUnlessGet(method) == method # "GET"

\* The test of lines 107 and 344: the methods that get the JSON body.
HasJsonBody(method) == method # "GET" /\ method # "DELETE"

\* format!("slurm/{}/{}", SLURM_API_VERSION, path), line 74
SlurmUrlPath(path) == <<"slurm", "/">> \o SLURM_API_VERSION \o <<"/">> \o path

\* format!("slurm/{}/{}", SLURM_API_VERSION, path), line 311
SlurmDBUrlPath(path) == <<"slurm", "/">> \o SLURM_API_VERSION \o <<"/">> \o path

UrlPath(kind, path) ==
    IF kind = "SlurmDB" THEN SlurmDBUrlPath(path) ELSE SlurmUrlPath(path)

\* HeaderMap::append: one more value under the name, those before it kept
HeaderAppend(h, name, value) == Append(h, [name |-> name, value |-> value])

\* a json() that adds its content type whatever the headers hold
JsonAddsContentType(h) == HeaderAppend(h, CONTENT_TYPE, <<"application/json">>)

\* RequestBuilder::json on the headers: the content type of the JSON body is
\* set only when the request has none
JsonContentType(h) ==
    IF \E i \in 1..Len(h) : h[i].name = CONTENT_TYPE THEN h
    ELSE HeaderAppend(h, CONTENT_TYPE, <<"application/json">>)

\* self.request(method, path, body, query) on client c: Ok(Request) or Err.
Request(c, method, path, body, query) ==
    LET url == UrlJoin(UrlParse(c.endpoint), UrlPath(c.kind, path))
        user_header_name == HeaderNameFromBytes(ToLowercase(SLURM_USER))
        user_header_val == HeaderValueFromStr(c.user)
        token_header_name == HeaderNameFromBytes(ToLowercase(SLURM_TOKEN))
        token_header_val == HeaderValueFromStr(c.token)
        headers == HeaderAppend(
                       HeaderAppend(
                           HeaderAppend(<<>>, user_header_name.name, user_header_val.value),
                           token_header_name.name, token_header_val.value),
                       CONTENT_TYPE, <<"application/json">>)
        url2 == IF query.some THEN WithQuery(url, query.pairs) ELSE url
        json == ToJson(body)
    IN  IF ~url.ok THEN BuildErr("url")
        ELSE IF ~user_header_name.ok THEN BuildErr("header name")
        ELSE IF ~user_header_val.ok THEN BuildErr("header value")
        ELSE IF ~token_header_name.ok THEN BuildErr("header name")
        ELSE IF ~token_header_val.ok THEN BuildErr("header value")
        ELSE IF HasJsonBody(method) /\ ~json.ok THEN BuildErr("json")
        ELSE [ok |-> TRUE, err |-> "",
              req |-> [method |-> method, url |-> url2,
                       headers |-> IF HasJsonBody(method) THEN JsonContentType(headers)
                                   ELSE headers,
                       body |-> IF HasJsonBody(method)
                                THEN [some |-> TRUE, text |-> json.text]
                                ELSE NoBody]]

----------------------------------------------------------------------------
(* Construction: Slurm::new, SlurmDB::new and new_from_env *)

\* The outcome of new(user, token, url): the client, or the panic message.
\* clientOk is whether Client::builder().build() succeeded.
NewOutcome(kind, user, token, url, clientOk) ==
    IF ~clientOk THEN [ok |-> FALSE, msg |-> <<"Unable to create client">>, c |-> NoClient]
    ELSE IF ~UrlParse(url).ok
    THEN [ok |-> FALSE, msg |-> <<"Unable to parse endpoint into URL!">>, c |-> NoClient]
    ELSE [ok |-> TRUE, msg |-> NoPanic,
          c |-> [kind |-> kind, user |-> user, token |-> token, endpoint |-> url]]

\* env::var(name).unwrap_or_default(): an unset variable read as empty
EnvVarOrEmpty(e, name) == IF e[name].set THEN e[name] ELSE SetTo(<<>>)

\* env::var(name) on environment e
EnvVar(e, name) == e[name]

\* The outcome of new_from_env(): the three reads in order, each fatal when
\* the variable is not set, then new().
NewFromEnvOutcome(kind, e, clientOk) ==
    LET endpoint == EnvVar(e, EnvVars[1])
        user == EnvVar(e, EnvVars[2])
        token == EnvVar(e, EnvVars[3])
        missing(n) == [ok |-> FALSE, msg |-> <<"env variable", n, "should be set">>, c |-> NoClient]
    IN  IF ~endpoint.set THEN missing(EnvVars[1])
        ELSE IF ~user.set THEN missing(EnvVars[2])
        ELSE IF ~token.set THEN missing(EnvVars[3])
        ELSE NewOutcome(kind, user.text, token.text, endpoint.text, clientOk)

----------------------------------------------------------------------------
(* JSON documents and typed values.  Both are tagged records [t, v]:       *)
(* "null", "bool", "str" (v a text), "arr" (v a sequence), "obj" (v a      *)
(* function from keys to values), and the numbers by the narrowest width   *)
(* that holds them: "int" (fits i32, v the number), "long" (fits i64 but   *)
(* not i32), "huge" (an integer beyond i64), "float" (v counts halves: 3   *)
(* is 1.5).                                                                *)

JNull == [t |-> "null", v |-> <<>>]
JBool(b) == [t |-> "bool", v |-> b]
JInt(n) == [t |-> "int", v |-> n]
JLong(n) == [t |-> "long", v |-> n]
JHuge(n) == [t |-> "huge", v |-> n]
JFloat(h) == [t |-> "float", v |-> h]
JStr(s) == [t |-> "str", v |-> s]
JArr(a) == [t |-> "arr", v |-> a]
JObj(f) == [t |-> "obj", v |-> f]

\* struct ReservationsResponse, lines 353-361
ReservationsResponseFields ==
    << [name |-> "meta", key |-> "meta", ty |-> <<"struct", "Meta">>, dflt |-> TRUE],
       [name |-> "errors", key |-> "errors", ty |-> <<"vec", "struct", "Error">>, dflt |-> TRUE],
       [name |-> "reservation", key |-> "reservation", ty |-> <<"vec", "struct", "Reservation">>, dflt |-> TRUE] >>

\* struct Reservation, lines 363-403
ReservationFields ==
    << [name |-> "accounts", key |-> "accounts", ty |-> <<"opt", "str">>, dflt |-> TRUE],
       [name |-> "burst_buffer", key |-> "burst_buffer", ty |-> <<"opt", "str">>, dflt |-> TRUE],
       [name |-> "core_count", key |-> "core_count", ty |-> <<"opt", "i64">>, dflt |-> TRUE],
       [name |-> "core_spec_cnt", key |-> "core_spec_cnt", ty |-> <<"opt", "i64">>, dflt |-> TRUE],
       [name |-> "end_time", key |-> "end_time", ty |-> <<"opt", "i64">>, dflt |-> TRUE],
       [name |-> "features", key |-> "features", ty |-> <<"opt", "str">>, dflt |-> TRUE],
       [name |-> "flags", key |-> "flags", ty |-> <<"vec", "str">>, dflt |-> TRUE],
       [name |-> "groups", key |-> "groups", ty |-> <<"opt", "str">>, dflt |-> TRUE],
       [name |-> "licenses", key |-> "licenses", ty |-> <<"opt", "str">>, dflt |-> TRUE],
       [name |-> "max_start_delay", key |-> "max_start_delay", ty |-> <<"opt", "i64">>, dflt |-> TRUE],
       [name |-> "name", key |-> "name", ty |-> <<"opt", "str">>, dflt |-> TRUE],
       [name |-> "node_count", key |-> "node_count", ty |-> <<"opt", "i64">>, dflt |-> TRUE],
       [name |-> "node_list", key |-> "node_list", ty |-> <<"opt", "str">>, dflt |-> TRUE],
       [name |-> "partition", key |-> "partition", ty |-> <<"opt", "str">>, dflt |-> TRUE],
       [name |-> "purge_completed", key |-> "purge_completed", ty |-> <<"struct", "ReservationPurgeCompleted">>, dflt |-> TRUE],
       [name |-> "start_time", key |-> "start_time", ty |-> <<"opt", "i64">>, dflt |-> TRUE],
       [name |-> "watts", key |-> "watts", ty |-> <<"opt", "i64">>, dflt |-> TRUE],
       [name |-> "tres", key |-> "tres", ty |-> <<"opt", "str">>, dflt |-> TRUE],
       [name |-> "users", key |-> "users", ty |-> <<"opt", "str">>, dflt |-> TRUE] >>

\* struct ReservationPurgeCompleted, lines 405-409
ReservationPurgeCompletedFields ==
    << [name |-> "time", key |-> "time", ty |-> <<"opt", "i64">>, dflt |-> TRUE] >>

\* struct Diag, lines 411-419
DiagFields ==
    << [name |-> "meta", key |-> "meta", ty |-> <<"struct", "Meta">>, dflt |-> TRUE],
       [name |-> "errors", key |-> "errors", ty |-> <<"vec", "struct", "Error">>, dflt |-> TRUE],
       [name |-> "statistics", key |-> "statistics", ty |-> <<"struct", "DiagStatistics">>, dflt |-> TRUE] >>

\* struct DiagStatistics, lines 421-509
DiagStatisticsFields ==
    << [name |-> "parts_packed", key |-> "parts_packed", ty |-> <<"opt", "i64">>, dflt |-> TRUE],
       [name |-> "req_time", key |-> "req_time", ty |-> <<"opt", "i64">>, dflt |-> TRUE],
       [name |-> "req_time_start", key |-> "req_time_start", ty |-> <<"opt", "i64">>, dflt |-> TRUE],
       [name |-> "server_thread_count", key |-> "server_thread_count", ty |-> <<"opt", "i64">>, dflt |-> TRUE],
       [name |-> "agent_queue_size", key |-> "agent_queue_size", ty |-> <<"opt", "i64">>, dflt |-> TRUE],
       [name |-> "agent_count", key |-> "agent_count", ty |-> <<"opt", "i64">>, dflt |-> TRUE],
       [name |-> "agent_thread_count", key |-> "agent_thread_count", ty |-> <<"opt", "i64">>, dflt |-> TRUE],
       [name |-> "dbd_agent_queue_size", key |-> "dbd_agent_queue_size", ty |-> <<"opt", "i64">>, dflt |-> TRUE],
       [name |-> "gettimeofday_latency", key |-> "gettimeofday_latency", ty |-> <<"opt", "i64">>, dflt |-> TRUE],
       [name |-> "schedule_cycle_max", key |-> "schedule_cycle_max", ty |-> <<"opt", "i64">>, dflt |-> TRUE],
       [name |-> "schedule_cycle_last", key |-> "schedule_cycle_last", ty |-> <<"opt", "i64">>, dflt |-> TRUE],
       [name |-> "schedule_cycle_total", key |-> "schedule_cycle_total", ty |-> <<"opt", "i64">>, dflt |-> TRUE],
       [name |-> "schedule_cycle_mean", key |-> "schedule_cycle_mean", ty |-> <<"opt", "i64">>, dflt |-> TRUE],
       [name |-> "schedule_cycle_mean_depth", key |-> "schedule_cycle_mean_depth", ty |-> <<"opt", "i64">>, dflt |-> TRUE],
       [name |-> "schedule_cycle_per_minute", key |-> "schedule_cycle_per_minute", ty |-> <<"opt", "i64">>, dflt |-> TRUE],
       [name |-> "schedule_queue_length", key |-> "schedule_queue_length", ty |-> <<"opt", "i64">>, dflt |-> TRUE],
       [name |-> "jobs_submitted", key |-> "jobs_submitted", ty |-> <<"opt", "i64">>, dflt |-> TRUE],
       [name |-> "jobs_started", key |-> "jobs_started", ty |-> <<"opt", "i64">>, dflt |-> TRUE],
       [name |-> "jobs_completed", key |-> "jobs_completed", ty |-> <<"opt", "i64">>, dflt |-> TRUE],
       [name |-> "jobs_canceled", key |-> "jobs_canceled", ty |-> <<"opt", "i64">>, dflt |-> TRUE],
       [name |-> "jobs_failed", key |-> "jobs_failed", ty |-> <<"opt", "i64">>, dflt |-> TRUE],
       [name |-> "jobs_pending", key |-> "jobs_pending", ty |-> <<"opt", "i64">>, dflt |-> TRUE],
       [name |-> "jobs_running", key |-> "jobs_running", ty |-> <<"opt", "i64">>, dflt |-> TRUE],
       [name |-> "job_states_ts", key |-> "job_states_ts", ty |-> <<"opt", "i64">>, dflt |-> TRUE],
       [name |-> "bf_backfilled_jobs", key |-> "bf_backfilled_jobs", ty |-> <<"opt", "i64">>, dflt |-> TRUE],
       [name |-> "bf_last_backfilled_jobs", key |-> "bf_last_backfilled_jobs", ty |-> <<"opt", "i64">>, dflt |-> TRUE],
       [name |-> "bf_backfilled_het_jobs", key |-> "bf_backfilled_het_jobs", ty |-> <<"opt", "i64">>, dflt |-> TRUE],
       [name |-> "bf_cycle_counter", key |-> "bf_cycle_counter", ty |-> <<"opt", "i64">>, dflt |-> TRUE],
       [name |-> "bf_cycle_mean", key |-> "bf_cycle_mean", ty |-> <<"opt", "i64">>, dflt |-> TRUE],
       [name |-> "bf_cycle_max", key |-> "bf_cycle_max", ty |-> <<"opt", "i64">>, dflt |-> TRUE],
       [name |-> "bf_last_depth", key |-> "bf_last_depth", ty |-> <<"opt", "i64">>, dflt |-> TRUE],
       [name |-> "bf_last_depth_try", key |-> "bf_last_depth_try", ty |-> <<"opt", "i64">>, dflt |-> TRUE],
       [name |-> "bf_depth_mean", key |-> "bf_depth_mean", ty |-> <<"opt", "i64">>, dflt |-> TRUE],
       [name |-> "bf_depth_mean_try", key |-> "bf_depth_mean_try", ty |-> <<"opt", "i64">>, dflt |-> TRUE],
       [name |-> "bf_cycle_last", key |-> "bf_cycle_last", ty |-> <<"opt", "i64">>, dflt |-> TRUE],
       [name |-> "bf_queue_len", key |-> "bf_queue_len", ty |-> <<"opt", "i64">>, dflt |-> TRUE],
       [name |-> "bf_queue_len_mean", key |-> "bf_queue_len_mean", ty |-> <<"opt", "i64">>, dflt |-> TRUE],
       [name |-> "bf_table_size", key |-> "bf_table_size", ty |-> <<"opt", "i64">>, dflt |-> TRUE],
       [name |-> "bf_table_size_mean", key |-> "bf_table_size_mean", ty |-> <<"opt", "i64">>, dflt |-> TRUE],
       [name |-> "bf_when_last_cycle", key |-> "bf_when_last_cycle", ty |-> <<"opt", "i64">>, dflt |-> TRUE],
       [name |-> "bf_active", key |-> "bf_active", ty |-> <<"opt", "bool">>, dflt |-> TRUE],
       [name |-> "rpcs_by_message_type", key |-> "rpcs_by_message_type", ty |-> <<"opt", "vec", "struct", "DiagRpcm">>, dflt |-> TRUE],
       [name |-> "rpcs_by_user", key |-> "rpcs_by_user", ty |-> <<"opt", "vec", "struct", "DiagRpcu">>, dflt |-> TRUE] >>

\* struct DiagRpcm, lines 511-523
DiagRpcmFields ==
    << [name |-> "message_type", key |-> "message_type", ty |-> <<"opt", "str">>, dflt |-> TRUE],
       [name |-> "type_id", key |-> "type_id", ty |-> <<"opt", "i64">>, dflt |-> TRUE],
       [name |-> "count", key |-> "count", ty |-> <<"opt", "i64">>, dflt |-> TRUE],
       [name |-> "average_time", key |-> "average_time", ty |-> <<"opt", "i64">>, dflt |-> TRUE],
       [name |-> "total_time", key |-> "total_time", ty |-> <<"opt", "i64">>, dflt |-> TRUE] >>

\* struct DiagRpcu, lines 525-537
DiagRpcuFields ==
    << [name |-> "user", key |-> "user", ty |-> <<"opt", "str">>, dflt |-> TRUE],
       [name |-> "user_id", key |-> "user_id", ty |-> <<"opt", "i64">>, dflt |-> TRUE],
       [name |-> "count", key |-> "count", ty |-> <<"opt", "i64">>, dflt |-> TRUE],
       [name |-> "average_time", key |-> "average_time", ty |-> <<"opt", "i64">>, dflt |-> TRUE],
       [name |-> "total_time", key |-> "total_time", ty |-> <<"opt", "i64">>, dflt |-> TRUE] >>

\* struct NodesResponse, lines 539-547
NodesResponseFields ==
    << [name |-> "meta", key |-> "meta", ty |-> <<"struct", "Meta">>, dflt |-> TRUE],
       [name |-> "errors", key |-> "errors", ty |-> <<"vec", "struct", "Error">>, dflt |-> TRUE],
       [name |-> "nodes", key |-> "nodes", ty |-> <<"vec", "struct", "Node">>, dflt |-> TRUE] >>

\* struct Node, lines 549-635
NodeFields ==
    << [name |-> "architecture", key |-> "architecture", ty |-> <<"opt", "str">>, dflt |-> TRUE],
       [name |-> "burstbuffer_network_address", key |-> "burstbuffer_network_address", ty |-> <<"opt", "str">>, dflt |-> TRUE],
       [name |-> "boards", key |-> "boards", ty |-> <<"opt", "i64">>, dflt |-> TRUE],
       [name |-> "boot_time", key |-> "boot_time", ty |-> <<"opt", "i64">>, dflt |-> TRUE],
       [name |-> "cores", key |-> "cores", ty |-> <<"opt", "i64">>, dflt |-> TRUE],
       [name |-> "cpu_binding", key |-> "cpu_binding", ty |-> <<"opt", "i64">>, dflt |-> TRUE],
       [name |-> "cpu_load", key |-> "cpu_load", ty |-> <<"opt", "i64">>, dflt |-> TRUE],
       [name |-> "free_memory", key |-> "free_memory", ty |-> <<"opt", "i64">>, dflt |-> TRUE],
       [name |-> "cpus", key |-> "cpus", ty |-> <<"opt", "i64">>, dflt |-> TRUE],
       [name |-> "features", key |-> "features", ty |-> <<"opt", "str">>, dflt |-> TRUE],
       [name |-> "active_features", key |-> "active_features", ty |-> <<"opt", "str">>, dflt |-> TRUE],
       [name |-> "gres", key |-> "gres", ty |-> <<"opt", "str">>, dflt |-> TRUE],
       [name |-> "gres_drained", key |-> "gres_drained", ty |-> <<"opt", "str">>, dflt |-> TRUE],
       [name |-> "gres_used", key |-> "gres_used", ty |-> <<"opt", "str">>, dflt |-> TRUE],
       [name |-> "mcs_label", key |-> "mcs_label", ty |-> <<"opt", "str">>, dflt |-> TRUE],
       [name |-> "name", key |-> "name", ty |-> <<"opt", "str">>, dflt |-> TRUE],
       [name |-> "next_state_after_reboot", key |-> "next_state_after_reboot", ty |-> <<"opt", "str">>, dflt |-> TRUE],
       [name |-> "next_state_after_reboot_flags", key |-> "next_state_after_reboot_flags", ty |-> <<"vec", "str">>, dflt |-> TRUE],
       [name |-> "address", key |-> "address", ty |-> <<"opt", "str">>, dflt |-> TRUE],
       [name |-> "hostname", key |-> "hostname", ty |-> <<"opt", "str">>, dflt |-> TRUE],
       [name |-> "state", key |-> "state", ty |-> <<"opt", "str">>, dflt |-> TRUE],
       [name |-> "state_flags", key |-> "state_flags", ty |-> <<"vec", "str">>, dflt |-> TRUE],
       [name |-> "operating_system", key |-> "operating_system", ty |-> <<"opt", "str">>, dflt |-> TRUE],
       [name |-> "owner", key |-> "owner", ty |-> <<"opt", "str">>, dflt |-> TRUE],
       [name |-> "partitions", key |-> "partitions", ty |-> <<"vec", "str">>, dflt |-> TRUE],
       [name |-> "port", key |-> "port", ty |-> <<"opt", "i64">>, dflt |-> TRUE],
       [name |-> "real_memory", key |-> "real_memory", ty |-> <<"opt", "i64">>, dflt |-> TRUE],
       [name |-> "reason", key |-> "reason", ty |-> <<"opt", "str">>, dflt |-> TRUE],
       [name |-> "reason_changed_at", key |-> "reason_changed_at", ty |-> <<"opt", "i64">>, dflt |-> TRUE],
       [name |-> "reason_set_by_user", key |-> "reason_set_by_user", ty |-> <<"opt", "str">>, dflt |-> TRUE],
       [name |-> "slurmd_start_time", key |-> "slurmd_start_time", ty |-> <<"opt", "i64">>, dflt |-> TRUE],
       [name |-> "sockets", key |-> "sockets", ty |-> <<"opt", "i64">>, dflt |-> TRUE],
       [name |-> "threads", key |-> "threads", ty |-> <<"opt", "i64">>, dflt |-> TRUE],
       [name |-> "temporary_disk", key |-> "temporary_disk", ty |-> <<"opt", "i64">>, dflt |-> TRUE],
       [name |-> "weight", key |-> "weight", ty |-> <<"opt", "i64">>, dflt |-> TRUE],
       [name |-> "tres", key |-> "tres", ty |-> <<"opt", "str">>, dflt |-> TRUE],
       [name |-> "tres_used", key |-> "tres_used", ty |-> <<"opt", "str">>, dflt |-> TRUE],
       [name |-> "tres_weighted", key |-> "tres_weighted", ty |-> <<"opt", "f64">>, dflt |-> TRUE],
       [name |-> "slurmd_version", key |-> "slurmd_version", ty |-> <<"opt", "str">>, dflt |-> TRUE],
       [name |-> "alloc_cpus", key |-> "alloc_cpus", ty |-> <<"opt", "i64">>, dflt |-> TRUE],
       [name |-> "idle_cpus", key |-> "idle_cpus", ty |-> <<"opt", "i64">>, dflt |-> TRUE],
       [name |-> "alloc_memory", key |-> "alloc_memory", ty |-> <<"opt", "i64">>, dflt |-> TRUE] >>

\* struct PartitionsResponse, lines 637-645
PartitionsResponseFields ==
    << [name |-> "meta", key |-> "meta", ty |-> <<"struct", "Meta">>, dflt |-> TRUE],
       [name |-> "errors", key |-> "errors", ty |-> <<"vec", "struct", "Error">>, dflt |-> TRUE],
       [name |-> "partitions", key |-> "partitions", ty |-> <<"vec", "struct", "Partition">>, dflt |-> TRUE] >>

\* struct Partition, lines 647-709
PartitionFields ==
    << [name |-> "flags", key |-> "flags", ty |-> <<"vec", "str">>, dflt |-> TRUE],
       [name |-> "preemption_mode", key |-> "preemption_mode", ty |-> <<"vec", "str">>, dflt |-> TRUE],
       [name |-> "allowed_allocation_nodes", key |-> "allowed_allocation_nodes", ty |-> <<"str">>, dflt |-> TRUE],
       [name |-> "allowed_accounts", key |-> "allowed_accounts", ty |-> <<"str">>, dflt |-> FALSE],
       [name |-> "allowed_groups", key |-> "allowed_groups", ty |-> <<"str">>, dflt |-> TRUE],
       [name |-> "allowed_qos", key |-> "allowed_qos", ty |-> <<"str">>, dflt |-> TRUE],
       [name |-> "alternative", key |-> "alternative", ty |-> <<"str">>, dflt |-> TRUE],
       [name |-> "billing_weights", key |-> "billing_weights", ty |-> <<"str">>, dflt |-> TRUE],
       [name |-> "default_memory_per_cpu", key |-> "default_memory_per_cpu", ty |-> <<"opt", "i64">>, dflt |-> TRUE],
       [name |-> "default_time_limit", key |-> "default_time_limit", ty |-> <<"opt", "i64">>, dflt |-> TRUE],
       [name |-> "denied_accounts", key |-> "denied_accounts", ty |-> <<"str">>, dflt |-> TRUE],
       [name |-> "denied_qos", key |-> "denied_qos", ty |-> <<"str">>, dflt |-> TRUE],
       [name |-> "preemption_grace_time", key |-> "preemption_grace_time", ty |-> <<"opt", "i64">>, dflt |-> TRUE],
       [name |-> "maximum_cpus_per_node", key |-> "maximum_cpus_per_node", ty |-> <<"opt", "i64">>, dflt |-> TRUE],
       [name |-> "maximum_memory_per_node", key |-> "maximum_memory_per_node", ty |-> <<"opt", "i64">>, dflt |-> TRUE],
       [name |-> "maximum_nodes_per_job", key |-> "maximum_nodes_per_job", ty |-> <<"opt", "i64">>, dflt |-> FALSE],
       [name |-> "max_time_limit", key |-> "max_time_limit", ty |-> <<"opt", "i64">>, dflt |-> TRUE],
       [name |-> "min_nodes_per_job", key |-> "min_nodes_per_job", ty |-> <<"opt", "i64">>, dflt |-> TRUE],
       [name |-> "name", key |-> "name", ty |-> <<"str">>, dflt |-> TRUE],
       [name |-> "nodes", key |-> "nodes", ty |-> <<"str">>, dflt |-> TRUE],
       [name |-> "over_time_limit", key |-> "over_time_limit", ty |-> <<"opt", "i64">>, dflt |-> TRUE],
       [name |-> "priority_job_factor", key |-> "priority_job_factor", ty |-> <<"opt", "i64">>, dflt |-> TRUE],
       [name |-> "priority_tier", key |-> "priority_tier", ty |-> <<"opt", "i64">>, dflt |-> FALSE],
       [name |-> "qos", key |-> "qos", ty |-> <<"str">>, dflt |-> TRUE],
       [name |-> "state", key |-> "state", ty |-> <<"str">>, dflt |-> TRUE],
       [name |-> "total_cpus", key |-> "total_cpus", ty |-> <<"opt", "i64">>, dflt |-> TRUE],
       [name |-> "total_nodes", key |-> "total_nodes", ty |-> <<"opt", "i64">>, dflt |-> TRUE],
       [name |-> "tres", key |-> "tres", ty |-> <<"str">>, dflt |-> TRUE],
       [name |-> "maximum_memory_per_cpu", key |-> "maximum_memory_per_cpu", ty |-> <<"opt", "i64">>, dflt |-> TRUE],
       [name |-> "default_memory_per_node", key |-> "default_memory_per_node", ty |-> <<"opt", "i64">>, dflt |-> TRUE] >>

\* struct Pings, lines 711-719
PingsFields ==
    << [name |-> "meta", key |-> "meta", ty |-> <<"struct", "Meta">>, dflt |-> TRUE],
       [name |-> "errors", key |-> "errors", ty |-> <<"vec", "struct", "Error">>, dflt |-> TRUE],
       [name |-> "pings", key |-> "pings", ty |-> <<"vec", "struct", "Ping">>, dflt |-> TRUE] >>

\* struct Ping, lines 721-731
PingFields ==
    << [name |-> "hostname", key |-> "hostname", ty |-> <<"str">>, dflt |-> TRUE],
       [name |-> "ping", key |-> "ping", ty |-> <<"str">>, dflt |-> TRUE],
       [name |-> "mode", key |-> "mode", ty |-> <<"str">>, dflt |-> TRUE],
       [name |-> "status", key |-> "status", ty |-> <<"i32">>, dflt |-> TRUE] >>

\* struct Meta, lines 733-739
MetaFields ==
    << [name |-> "plugin", key |-> "plugin", ty |-> <<"struct", "MetaPlugin">>, dflt |-> TRUE],
       [name |-> "slurm", key |-> "Slurm", ty |-> <<"struct", "MetaSlurm">>, dflt |-> TRUE] >>

\* struct MetaPlugin, lines 741-747
MetaPluginFields ==
    << [name |-> "plugin_type", key |-> "type", ty |-> <<"str">>, dflt |-> TRUE],
       [name |-> "name", key |-> "name", ty |-> <<"str">>, dflt |-> TRUE] >>

\* struct MetaSlurm, lines 749-755
MetaSlurmFields ==
    << [name |-> "version", key |-> "version", ty |-> <<"struct", "MetaSlurmVersion">>, dflt |-> TRUE],
       [name |-> "release", key |-> "release", ty |-> <<"str">>, dflt |-> TRUE] >>

\* struct MetaSlurmVersion, lines 757-765
MetaSlurmVersionFields ==
    << [name |-> "major", key |-> "major", ty |-> <<"i32">>, dflt |-> TRUE],
       [name |-> "micro", key |-> "micro", ty |-> <<"i32">>, dflt |-> TRUE],
       [name |-> "minor", key |-> "minor", ty |-> <<"i32">>, dflt |-> TRUE] >>

\* struct Error, lines 767-773
ErrorFields ==
    << [name |-> "error", key |-> "error", ty |-> <<"str">>, dflt |-> TRUE],
       [name |-> "error_number", key |-> "error_number", ty |-> <<"i32">>, dflt |-> TRUE] >>

\* the fields of every struct that derives Deserialize
Schema ==
    [ ReservationsResponse |-> ReservationsResponseFields,
      Reservation |-> ReservationFields,
      ReservationPurgeCompleted |-> ReservationPurgeCompletedFields,
      Diag |-> DiagFields,
      DiagStatistics |-> DiagStatisticsFields,
      DiagRpcm |-> DiagRpcmFields,
      DiagRpcu |-> DiagRpcuFields,
      NodesResponse |-> NodesResponseFields,
      Node |-> NodeFields,
      PartitionsResponse |-> PartitionsResponseFields,
      Partition |-> PartitionFields,
      Pings |-> PingsFields,
      Ping |-> PingFields,
      Meta |-> MetaFields,
      MetaPlugin |-> MetaPluginFields,
      MetaSlurm |-> MetaSlurmFields,
      MetaSlurmVersion |-> MetaSlurmVersionFields,
      Error |-> ErrorFields ]


StructNames == DOMAIN Schema

\* the position of the field of struct s with JSON key k, or 0
FieldIndex(s, k) ==
    LET hits == {i \in 1..Len(Schema[s]) : Schema[s][i].key = k}
    IN  IF hits = {} THEN 0 ELSE CHOOSE i \in hits : TRUE

RECURSIVE DefaultOf(_)
\* Default::default() of a field type
DefaultOf(ty) ==
    CASE Head(ty) = "opt" -> JNull
      [] Head(ty) = "str" -> JStr(<<>>)
      [] Head(ty) \in {"i64", "i32"} -> JInt(0)
      [] Head(ty) = "f64" -> JFloat(0)
      [] Head(ty) = "bool" -> JBool(FALSE)
      [] Head(ty) = "vec" -> JArr(<<>>)
      [] Head(ty) = "struct" ->
            JObj([n \in {Schema[ty[2]][i].name : i \in 1..Len(Schema[ty[2]])} |->
                    DefaultOf(Schema[ty[2]][CHOOSE i \in 1..Len(Schema[ty[2]]) :
                                                Schema[ty[2]][i].name = n].ty)])

DecodeOk(v) == [ok |-> TRUE, v |-> v]
DecodeErr(why) == [ok |-> FALSE, v |-> [t |-> "err", v |-> why]]

\* What serde does for a field whose key the document does not hold: the
\* Default of a #[serde(default)] field, None for an Option, else an error.
MissingField(f) ==
    IF f.dflt THEN DecodeOk(DefaultOf(f.ty))
    ELSE IF Head(f.ty) = "opt" THEN DecodeOk(JNull)
    ELSE DecodeErr(<<"missing field", f.key>>)

RECURSIVE DecodeTy(_, _)
\* Deserialize for a field type from JSON document j: the typed value, or
\* the first error.
DecodeTy(ty, j) ==
    CASE Head(ty) = "opt" -> IF j.t = "null" THEN DecodeOk(JNull) ELSE DecodeTy(Tail(ty), j)
      [] Head(ty) = "str" -> IF j.t = "str" THEN DecodeOk(j) ELSE DecodeErr(<<"invalid type">>)
      [] Head(ty) = "i64" ->
            IF j.t \in {"int", "long"} THEN DecodeOk(j)
            ELSE IF j.t = "huge" THEN DecodeErr(<<"invalid value">>)
            ELSE DecodeErr(<<"invalid type">>)
      [] Head(ty) = "i32" ->
            IF j.t = "int" THEN DecodeOk(j)
            ELSE IF j.t \in {"long", "huge"} THEN DecodeErr(<<"invalid value">>)
            ELSE DecodeErr(<<"invalid type">>)
      [] Head(ty) = "f64" ->
            IF j.t = "float" THEN DecodeOk(j)
            ELSE IF j.t \in {"int", "long", "huge"} THEN DecodeOk(JFloat(2 * j.v))
            ELSE DecodeErr(<<"invalid type">>)
      [] Head(ty) = "bool" -> IF j.t = "bool" THEN DecodeOk(j) ELSE DecodeErr(<<"invalid type">>)
      [] Head(ty) = "vec" ->
            IF j.t # "arr" THEN DecodeErr(<<"invalid type">>)
            ELSE LET items == [i \in 1..Len(j.v) |-> DecodeTy(Tail(ty), j.v[i])]
                     bad == {i \in 1..Len(j.v) : ~items[i].ok}
                 IN  IF bad # {} THEN items[CHOOSE i \in bad : \A k \in bad : i <= k]
                     ELSE DecodeOk(JArr([i \in 1..Len(j.v) |-> items[i].v]))
      [] Head(ty) = "struct" ->
            LET fs == Schema[ty[2]]
                n == Len(fs)
                \* a map document gives fields by key (unknown keys are ignored),
                \* a sequence document gives them by position
                got(i) == IF j.t = "obj"
                          THEN IF fs[i].key \in DOMAIN j.v
                               THEN DecodeTy(fs[i].ty, j.v[fs[i].key])
                               ELSE MissingField(fs[i])
                          ELSE IF i <= Len(j.v) THEN DecodeTy(fs[i].ty, j.v[i])
                               ELSE IF fs[i].dflt THEN DecodeOk(DefaultOf(fs[i].ty))
                               ELSE DecodeErr(<<"invalid length">>)
                items == [i \in 1..n |-> got(i)]
                bad == {i \in 1..n : ~items[i].ok}
            IN  IF j.t \notin {"obj", "arr"} THEN DecodeErr(<<"invalid type">>)
                ELSE IF j.t = "arr" /\ Len(j.v) > n THEN DecodeErr(<<"invalid length">>)
                ELSE IF bad # {} THEN items[CHOOSE i \in bad : \A k \in bad : i <= k]
                ELSE DecodeOk(JObj([nm \in {fs[i].name : i \in 1..n} |->
                                        items[CHOOSE i \in 1..n : fs[i].name = nm].v]))

\* an f64 that is NaN or an infinity
NonFinite == [t |-> "nonfinite", v |-> <<>>]

\* a serializer of structs that leaves out the fields that are None, not
\* finite, an empty text or an empty list
EncodeNonEmpty(ty, v) ==
    LET fs == Schema[ty[2]]
        empty == {JNull, NonFinite, JStr(<<>>), JArr(<<>>)}
    IN  JObj([k \in {fs[i].key : i \in {n \in 1..Len(fs) : v.v[fs[n].name] \notin empty}} |->
                v.v[fs[CHOOSE i \in 1..Len(fs) : fs[i].key = k].name]])

RECURSIVE EncodeTy(_, _)
\* Serialize of a value v of field type ty, as serde_json writes it: None
\* is null, an f64 that is not finite is null, a struct is an object that
\* holds every field under its key.
EncodeTy(ty, v) ==
    CASE Head(ty) = "opt" -> IF v = JNull THEN JNull ELSE EncodeTy(Tail(ty), v)
      [] Head(ty) = "f64" -> IF v = NonFinite THEN JNull ELSE v
      [] Head(ty) \in {"str", "i64", "i32", "bool"} -> v
      [] Head(ty) = "vec" -> JArr([i \in 1..Len(v.v) |-> EncodeTy(Tail(ty), v.v[i])])
      [] Head(ty) = "struct" ->
            LET fs == Schema[ty[2]]
            IN  JObj([k \in {fs[i].key : i \in 1..Len(fs)} |->
                        LET f == fs[CHOOSE i \in 1..Len(fs) : fs[i].key = k]
                        IN  EncodeTy(f.ty, v.v[f.name])])

\* A response body: bytes that are not JSON, or a JSON document.
NotJson(text) == [json |-> FALSE, text |-> text, doc |-> JNull]
Json(text, doc) == [json |-> TRUE, text |-> text, doc |-> doc]

\* response.json::<T>(): serde_json::from_slice into the response struct T
DecodeBody(T, body) ==
    IF ~body.json THEN DecodeErr(<<"expected value">>)
    ELSE DecodeTy(<<"struct", T>>, body.doc)

----------------------------------------------------------------------------
(* The endpoint methods of Slurm, lines 117-249 *)

Methods == {"ping", "get_partitions", "get_partition", "get_nodes", "get_node",
            "get_diag", "get_reservations", "get_reservation"}

\* the methods that take an identifier
LookupMethods == {"get_partition", "get_node", "get_reservation"}

NoArg == <<>>

\* The relative path each method hands to the request builder.
EndpointPath(m, arg) ==
    CASE m = "ping" -> <<"ping">>
      [] m = "get_partitions" -> <<"partitions">>
      [] m = "get_partition" -> <<"partition", "/">> \o arg
      [] m = "get_nodes" -> <<"nodes">>
      [] m = "get_node" -> <<"node", "/">> \o arg
      [] m = "get_diag" -> <<"diag">>
      [] m = "get_reservations" -> <<"reservations">>
      [] m = "get_reservation" -> <<"reservation", "/">> \o arg

\* The response struct each method decodes into.
ResponseType(m) ==
    CASE m = "ping" -> "Pings"
      [] m \in {"get_partitions", "get_partition"} -> "PartitionsResponse"
      [] m \in {"get_nodes", "get_node"} -> "NodesResponse"
      [] m = "get_diag" -> "Diag"
      [] m \in {"get_reservations", "get_reservation"} -> "ReservationsResponse"

\* StatusCode::OK
StatusOK == 200

\* Display of a StatusCode: the number and the canonical reason
StatusDisplay(s) ==
    CASE s = 200 -> <<"200", " ", "OK">>
      [] s = 404 -> <<"404", " ", "Not Found">>
      [] s = 503 -> <<"503", " ", "Service Unavailable">>

NoResponse == [have |-> FALSE, status |-> 0, body |-> NotJson(<<>>)]
NoResult == [kind |-> "none", msg |-> <<>>, value |-> JNull]

\* Err from the request builder, propagated by `?`
BuildFailure(why) == [kind |-> "build", msg |-> <<why>>, value |-> JNull]
\* Err from the transport (execute, or reading the body), propagated by `?`
TransportFailure == [kind |-> "transport", msg |-> <<"error sending or reading">>, value |-> JNull]
\* bail!("status code: {}, body: {}", status, response.text().await?)
ProtocolFailure(status, text) ==
    [kind |-> "protocol",
     msg |-> <<"status code: ">> \o StatusDisplay(status) \o <<", body: ">> \o text,
     value |-> JNull]

\* a decoder that fails the call when the errors array is not empty
JsonOutcomeStrict(T, body) ==
    LET d == DecodeBody(T, body)
    IN  IF d.ok /\ d.v.v["errors"].v = <<>> THEN [kind |-> "ok", msg |-> <<>>, value |-> d.v]
        ELSE [kind |-> "decode", msg |-> <<"upstream errors">>, value |-> JNull]

\* a decoder that hands out the default struct when decoding fails
JsonOutcomeOrDefault(T, body) ==
    LET d == DecodeBody(T, body)
    IN  [kind |-> "ok", msg |-> <<>>,
         value |-> IF d.ok THEN d.v ELSE DefaultOf(<<"struct", T>>)]

\* let r: T = response.json().await?; Ok(r) -- on a body that was read
JsonOutcome(T, body) ==
    LET d == DecodeBody(T, body)
    IN  IF d.ok THEN [kind |-> "ok", msg |-> <<>>, value |-> d.v]
        ELSE [kind |-> "decode", msg |-> d.v.v, value |-> JNull]

IdleCall == [pc |-> "idle", method |-> "", arg |-> NoArg, req |-> NoRequest, sent |-> 0,
             resp |-> NoResponse, read |-> "none", decoded |-> FALSE, res |-> NoResult]

\* a builder that keeps the joined URL as the client's endpoint
ClientKeepsUrl(c, req) == [c EXCEPT !.endpoint = UrlText(req.url)]

\* &self: the methods borrow the client shared, so a call leaves it as it is
ClientAfterCall(c, req) == c

\* `response`, the local of the call of task t
OwnResponse(t) == calls[t].resp

\* A task calls method m with identifier arg: the request is built and, when
\* that succeeds, handed to client.execute.
Begin(t, m, arg) ==
    /\ proc = "ready" /\ client.kind = "Slurm"
    /\ calls[t].pc = "idle"
    /\ LET b == Request(client, "GET", EndpointPath(m, arg), Unit, NoQuery)
       IN  /\ calls' = [calls EXCEPT ![t] =
                IF b.ok
                THEN [IdleCall EXCEPT !.pc = "executing", !.method = m, !.arg = arg,
                                      !.req = b.req, !.sent = 1]
                ELSE [IdleCall EXCEPT !.pc = "done", !.method = m, !.arg = arg,
                                      !.res = BuildFailure(b.err)]]
           /\ client' = ClientAfterCall(client, b.req)
    /\ UNCHANGED <<env, proc, panic, rb, dec>>

\* a failed execute that sends the request again
ExecuteFailsRetry(t) ==
    /\ calls[t].pc = "executing" /\ calls[t].sent < 3
    /\ calls' = [calls EXCEPT ![t].sent = @ + 1]
    /\ UNCHANGED <<env, proc, panic, client, rb, dec>>

\* client.execute(request).await fails: the error is returned.
ExecuteFails(t) ==
    /\ calls[t].pc = "executing"
    /\ calls' = [calls EXCEPT ![t].pc = "done", ![t].res = TransportFailure]
    /\ UNCHANGED <<env, proc, panic, client, rb, dec>>

\* a response handled without the match on its status
RespondUnmatched(t, status, body) ==
    /\ calls[t].pc = "executing"
    /\ calls' = [calls EXCEPT ![t].resp = [have |-> TRUE, status |-> status, body |-> body],
                              ![t].pc = "json"]
    /\ UNCHANGED <<env, proc, panic, client, rb, dec>>

\* client.execute(request).await yields a response; the status is matched.
Respond(t, status, body) ==
    /\ calls[t].pc = "executing"
    /\ calls' = [calls EXCEPT ![t].resp = [have |-> TRUE, status |-> status, body |-> body],
                              ![t].pc = IF status = StatusOK THEN "json" ELSE "text"]
    /\ UNCHANGED <<env, proc, panic, client, rb, dec>>

\* response.text().await on a non-200 response: the bail! with status and
\* body, or the error of reading the body.
ReadText(t, readOk) ==
    /\ calls[t].pc = "text"
    /\ calls' = [calls EXCEPT ![t].pc = "done",
                              ![t].read = IF readOk THEN "ok" ELSE "failed",
                              ![t].res = IF readOk
                                         THEN ProtocolFailure(OwnResponse(t).status,
                                                              OwnResponse(t).body.text)
                                         ELSE TransportFailure]
    /\ UNCHANGED <<env, proc, panic, client, rb, dec>>

\* response.json().await on a 200 response: the decoded struct, the decode
\* error, or the error of reading the body.
ReadJson(t, readOk) ==
    /\ calls[t].pc = "json"
    /\ calls' = [calls EXCEPT ![t].pc = "done",
                              ![t].read = IF readOk THEN "ok" ELSE "failed",
                              ![t].decoded = readOk,
                              ![t].res = IF readOk
                                         THEN JsonOutcome(ResponseType(calls[t].method),
                                                          OwnResponse(t).body)
                                         ELSE TransportFailure]
    /\ UNCHANGED <<env, proc, panic, client, rb, dec>>

\* The caller takes the result; the task may call again.
Return(t) ==
    /\ calls[t].pc = "done"
    /\ calls' = [calls EXCEPT ![t] = IdleCall]
    /\ UNCHANGED <<env, proc, panic, client, rb, dec>>

----------------------------------------------------------------------------
(* Construction steps *)

\* the builder not yet used
NoBuild == [built |-> FALSE, method |-> "", path |-> <<>>, body |-> Unit,
            query |-> NoQuery, out |-> BuildErr(""), again |-> FALSE, out2 |-> BuildErr("")]

\* Slurm::new_from_env() / SlurmDB::new_from_env()
NewFromEnv(kind, clientOk) ==
    /\ proc = "start"
    /\ LET o == NewFromEnvOutcome(kind, env, clientOk)
       IN  /\ proc' = IF o.ok THEN "ready" ELSE "panicked"
           /\ panic' = o.msg
           /\ client' = o.c
    /\ UNCHANGED <<env, calls, rb, dec>>

\* Slurm::new(user, token, url) / SlurmDB::new(user, token, url)
New(kind, user, token, url, clientOk) ==
    /\ proc = "start"
    /\ LET o == NewOutcome(kind, user, token, url, clientOk)
       IN  /\ proc' = IF o.ok THEN "ready" ELSE "panicked"
           /\ panic' = o.msg
           /\ client' = o.c
    /\ UNCHANGED <<env, calls, rb, dec>>

\* self.request(method, path, body, query) called, its result kept in rb
Build(method, path, body, query) ==
    /\ proc = "ready" /\ ~rb.built
    /\ LET out == Request(client, method, path, body, query)
       IN  /\ rb' = [NoBuild EXCEPT !.built = TRUE, !.method = method, !.path = path,
                                    !.body = body, !.query = query, !.out = out]
           /\ client' = ClientAfterCall(client, out.req)
    /\ UNCHANGED <<env, proc, panic, calls, dec>>

\* self.request called once more with the arguments of the call before, its
\* result kept in rb next to the first
BuildAgain ==
    /\ proc = "ready" /\ rb.built /\ ~rb.again
    /\ LET out == Request(client, rb.method, rb.path, rb.body, rb.query)
       IN  /\ rb' = [rb EXCEPT !.again = TRUE, !.out2 = out]
           /\ client' = ClientAfterCall(client, out.req)
    /\ UNCHANGED <<env, proc, panic, calls, dec>>

\* serde_json::to_value of the value dec.val of struct dec.T: the document
\* is what the decoder is given next
Encode ==
    /\ dec.done /\ ~dec.enc /\ dec.val # JNull
    /\ dec' = [dec EXCEPT !.enc = TRUE, !.done = FALSE,
                          !.doc = EncodeTy(<<"struct", dec.T>>, dec.val)]
    /\ UNCHANGED <<env, proc, panic, client, calls, rb>>

\* serde's Deserialize of response struct dec.T from document dec.doc
Decode ==
    /\ ~dec.done
    /\ dec' = [dec EXCEPT !.done = TRUE, !.res = DecodeTy(<<"struct", dec.T>>, dec.doc)]
    /\ UNCHANGED <<env, proc, panic, client, calls, rb>>

----------------------------------------------------------------------------
(* Bounds and inputs *)

\* concurrent tasks calling on one client
NTasks == 2
\* elements in each array of a sample document
SampleLen == 1

Tasks == 1..NTasks

Users == {<<"u">>, <<"u", "\n">>}
Tokens == {<<"tok">>, <<"t", "\r">>}
\* endpoint texts: bare origin, root path, a path with and without a trailing
\* slash, a URL that cannot be a base, and a text that is no URL
GoodEndpoints == {<<"http://h">>, <<"http://h", "/">>, <<"http://h", "/", "api">>,
                  <<"http://h", "/", "api", "/">>}
Endpoints == GoodEndpoints \cup {<<"mailto:a">>, <<"h">>}

HttpMethods == {"GET", "DELETE", "POST", "PUT"}
Idents == {<<"teach-gpu-n0">>, <<"..">>, <<"a", "/", "b">>, <<"a", "?", "b">>, <<"a", "#", "b">>}
Paths == {EndpointPath(m, NoArg) : m \in Methods \ LookupMethods}
            \cup {EndpointPath(m, <<"teach-gpu-n0">>) : m \in LookupMethods}
            \cup {EndpointPath("get_node", a) : a \in Idents}
Bodies == {Unit, [t |-> "str", v |-> <<"x">>], [t |-> "badmap", v |-> <<>>]}
Queries == {NoQuery, SomeQuery(<<>>), SomeQuery(<< <<"k", "v">> >>)}

StatusCodes == {200, 404, 503}

ErrorsDoc == JObj("errors" :> JArr(<< JObj("error" :> JStr(<<"boom">>) @@ "error_number" :> JInt(1)) >>))
\* response bodies: text that is no JSON, the empty document, a document
\* with an upstream error in it, a document of the wrong shape
OverloadedBody == NotJson(<<"overloaded">>)
EmptyBody == Json(<<"{}">>, JObj(<<>>))
ErrorsBody == Json(<<"{\"errors\":[{\"error\":\"boom\",\"error_number\":1}]}">>, ErrorsDoc)
MismatchBody == Json(<<"{\"errors\":\"x\"}">>, JObj("errors" :> JStr(<<"x">>)))
\* a document whose entity arrays each hold a good element and then a
\* malformed one, and whose statistics are of the wrong type
OneBadElementDoc ==
    JObj("nodes" :> JArr(<< JObj("name" :> JStr(<<"teach-gpu-n0">>)), JObj("name" :> JInt(5)) >>)
        @@ "partitions" :> JArr(<< JObj("allowed_accounts" :> JStr(<<"a">>)), JStr(<<"x">>) >>)
        @@ "reservation" :> JArr(<< JObj("name" :> JStr(<<"r">>)), JStr(<<"x">>) >>)
        @@ "pings" :> JArr(<< JObj("hostname" :> JStr(<<"h">>)), JObj("status" :> JStr(<<"up">>)) >>)
        @@ "statistics" :> JStr(<<"x">>))
OneBadElementBody ==
    Json(<<"{\"nodes\":[{\"name\":\"teach-gpu-n0\"},{\"name\":5}],\"partitions\":[{\"allowed_accounts\":\"a\"},\"x\"],\"reservation\":[{\"name\":\"r\"},\"x\"],\"pings\":[{\"hostname\":\"h\"},{\"status\":\"up\"}],\"statistics\":\"x\"}">>,
         OneBadElementDoc)
\* a document whose entities and statistics are JSON arrays where the
\* structs expect objects
PositionalDoc ==
    JObj("nodes" :> JArr(<< JObj("name" :> JStr(<<"teach-gpu-n0">>)), JArr(<<>>) >>)
        @@ "partitions" :> JArr(<< JArr(<< JArr(<<>>), JArr(<<>>), JStr(<<>>), JStr(<<"a">>) >>) >>)
        @@ "reservation" :> JArr(<< JArr(<<>>) >>)
        @@ "pings" :> JArr(<< JArr(<< JStr(<<"h">>) >>) >>)
        @@ "statistics" :> JArr(<<>>))
PositionalBody ==
    Json(<<"{\"nodes\":[{\"name\":\"teach-gpu-n0\"},[]],\"partitions\":[[[],[],\"\",\"a\"]],\"reservation\":[[]],\"pings\":[[\"h\"]],\"statistics\":[]}">>,
         PositionalDoc)
\* the response to a lookup of node teach-gpu-n0: a list of that one node
OneNodeDoc == JObj("nodes" :> JArr(<< JObj("name" :> JStr(<<"teach-gpu-n0">>)) >>))
OneNodeBody == Json(<<"{\"nodes\":[{\"name\":\"teach-gpu-n0\"}]}">>, OneNodeDoc)
CallBodies == {OverloadedBody, EmptyBody, ErrorsBody, MismatchBody, OneBadElementBody,
               PositionalBody, OneNodeBody}

EnvEndpoints == {Unset, SetTo(<<"http://h", "/">>), SetTo(<<"mailto:a">>), SetTo(<<"h">>)}
Envs == {("X_SLURM_ENDPOINT" :> e) @@ ("X_SLURM_USER_NAME" :> u) @@ ("X_SLURM_USER_TOKEN" :> k) :
            e \in EnvEndpoints, u \in {Unset} \cup {SetTo(x) : x \in Users},
            k \in {Unset} \cup {SetTo(x) : x \in Tokens}}
NoEnv == [n \in {EnvVars[i] : i \in 1..Len(EnvVars)} |-> Unset]

ResponseTypes == {"Pings", "NodesResponse", "PartitionsResponse", "ReservationsResponse", "Diag"}

KeysOf(s) == {Schema[s][i].key : i \in 1..Len(Schema[s])}

RECURSIVE SampleDoc(_, _, _)
\* A well-typed document of type ty whose objects of struct os lack the keys
\* in omit.
SampleDoc(ty, os, omit) ==
    CASE Head(ty) = "opt" -> SampleDoc(Tail(ty), os, omit)
      [] Head(ty) = "str" -> JStr(<<"s">>)
      [] Head(ty) \in {"i64", "i32"} -> JInt(1)
      [] Head(ty) = "f64" -> JFloat(3)
      [] Head(ty) = "bool" -> JBool(TRUE)
      [] Head(ty) = "vec" -> JArr([i \in 1..SampleLen |-> SampleDoc(Tail(ty), os, omit)])
      [] Head(ty) = "struct" ->
            JObj([k \in KeysOf(ty[2]) \ (IF ty[2] = os THEN omit ELSE {}) |->
                    SampleDoc(Schema[ty[2]][FieldIndex(ty[2], k)].ty, os, omit)])

\* For response struct T: the full sample, and for every struct and key the
\* sample without that key, and without any key.
SampleDocs(T) ==
    {SampleDoc(<<"struct", T>>, s, {k}) : s \in StructNames, k \in UNION {KeysOf(x) : x \in StructNames}}
        \cup {SampleDoc(<<"struct", T>>, s, KeysOf(s)) : s \in StructNames}
        \cup {SampleDoc(<<"struct", T>>, T, {})}

NoDecode == [done |-> TRUE, T |-> "", doc |-> JNull, res |-> DecodeOk(JNull),
             enc |-> FALSE, val |-> JNull]

\* the entity structs
EntityTypes == {"Partition", "Node", "Reservation"}

RECURSIVE ValuesOf(_)
\* Values of a field type: None and Some, the empty and a non-empty text,
\* an i32 and a wider number, a finite and a non-finite float, the empty
\* list and a list of SampleLen elements, and for a struct its all-default
\* value with one field changed to each of that field's values.
ValuesOf(ty) ==
    CASE Head(ty) = "opt" -> {JNull} \cup ValuesOf(Tail(ty))
      [] Head(ty) = "str" -> {JStr(<<>>), JStr(<<"s">>)}
      [] Head(ty) = "i64" -> {JInt(0), JInt(1), JLong(1)}
      [] Head(ty) = "i32" -> {JInt(0), JInt(1)}
      [] Head(ty) = "f64" -> {JFloat(0), JFloat(3), NonFinite}
      [] Head(ty) = "bool" -> {JBool(FALSE), JBool(TRUE)}
      [] Head(ty) = "vec" ->
            {JArr(<<>>)} \cup {JArr([i \in 1..SampleLen |-> x]) : x \in ValuesOf(Tail(ty))}
      [] Head(ty) = "struct" ->
            LET fs == Schema[ty[2]]
                base == DefaultOf(ty)
            IN  UNION {{JObj([base.v EXCEPT ![fs[i].name] = x]) : x \in ValuesOf(fs[i].ty)} :
                            i \in 1..Len(fs)}

----------------------------------------------------------------------------
(* Specifications *)

\* One caller: a client made from the environment, then calls one at a time.
Init ==
    /\ env \in Envs
    /\ proc = "start" /\ panic = NoPanic /\ client = NoClient
    /\ calls = [t \in Tasks |-> IdleCall]
    /\ rb = NoBuild /\ dec = NoDecode

Next ==
    \/ \E kind \in SlurmKinds, clientOk \in BOOLEAN : NewFromEnv(kind, clientOk)
    \/ \E m \in Methods \ LookupMethods : Begin(1, m, NoArg)
    \/ \E m \in LookupMethods, a \in Idents : Begin(1, m, a)
    \/ ExecuteFails(1)
    \/ \E s \in StatusCodes, b \in CallBodies : Respond(1, s, b)
    \/ \E ok \in BOOLEAN : ReadText(1, ok)
    \/ \E ok \in BOOLEAN : ReadJson(1, ok)
    \/ Return(1)

Spec == Init /\ [][Next]_vars

\* The request builder on its own: a client made by new(), then requests
\* built from every method, path, body and query.
InitRequest ==
    /\ env = NoEnv
    /\ proc = "start" /\ panic = NoPanic /\ client = NoClient
    /\ calls = [t \in Tasks |-> IdleCall]
    /\ rb = NoBuild /\ dec = NoDecode

NextRequest ==
    \/ \E kind \in SlurmKinds, u \in Users, k \in Tokens, e \in Endpoints, clientOk \in BOOLEAN :
            New(kind, u, k, e, clientOk)
    \/ \E m \in HttpMethods, p \in Paths, b \in Bodies, q \in Queries : Build(m, p, b, q)
    \/ BuildAgain

SpecRequest == InitRequest /\ [][NextRequest]_vars

\* The decoder on its own: every response struct on its sample documents.
InitDecode ==
    /\ env = NoEnv
    /\ proc = "start" /\ panic = NoPanic /\ client = NoClient
    /\ calls = [t \in Tasks |-> IdleCall]
    /\ rb = NoBuild
    /\ dec \in {[NoDecode EXCEPT !.done = FALSE, !.T = T, !.doc = d] :
                    T \in ResponseTypes, d \in UNION {SampleDocs(X) : X \in ResponseTypes}}

NextDecode == Decode

SpecDecode == InitDecode /\ [][NextDecode]_vars

\* The round trip: every sample value of an entity struct is encoded, and
\* the document decoded.
InitRoundTrip ==
    /\ env = NoEnv
    /\ proc = "start" /\ panic = NoPanic /\ client = NoClient
    /\ calls = [t \in Tasks |-> IdleCall]
    /\ rb = NoBuild
    /\ dec \in {[NoDecode EXCEPT !.T = T, !.val = v] :
                    T \in EntityTypes, v \in UNION {ValuesOf(<<"struct", X>>) : X \in EntityTypes}}
    /\ dec.val \in ValuesOf(<<"struct", dec.T>>)

NextRoundTrip == Encode \/ Decode

SpecRoundTrip == InitRoundTrip /\ [][NextRoundTrip]_vars

\* Concurrent callers on one constructed client.
ConcIdents == {<<"n0">>, <<"n1">>}
ConcClients == {NewOutcome("Slurm", u, <<"tok">>, <<"http://h", "/">>, TRUE).c : u \in Users}

InitConcurrent ==
    /\ env = NoEnv
    /\ proc = "ready" /\ panic = NoPanic /\ client \in ConcClients
    /\ calls = [t \in Tasks |-> IdleCall]
    /\ rb = NoBuild /\ dec = NoDecode

NextConcurrent ==
    \/ \E t \in Tasks : Begin(t, "ping", NoArg)
    \/ \E t \in Tasks, a \in ConcIdents : Begin(t, "get_node", a)
    \/ \E t \in Tasks : ExecuteFails(t)
    \/ \E t \in Tasks, s \in {200, 503}, b \in {OverloadedBody, ErrorsBody} : Respond(t, s, b)
    \/ \E t \in Tasks, ok \in BOOLEAN : ReadText(t, ok)
    \/ \E t \in Tasks, ok \in BOOLEAN : ReadJson(t, ok)
    \/ \E t \in Tasks : Return(t)

SpecConcurrent == InitConcurrent /\ [][NextConcurrent]_vars

----------------------------------------------------------------------------
(* Properties *)

HasControl(s) == \E i \in 1..Len(s) : s[i] \in ControlTokens

Contains(s, sub) == \E i \in 1..(Len(s) - Len(sub) + 1) : SubSeq(s, i, i + Len(sub) - 1) = sub

\* The endpoint text as given, closed by exactly one slash.
WithOneSlash(e) == IF e # <<>> /\ e[Len(e)] = "/" THEN e ELSE e \o <<"/">>

\* C1: every request a Slurm client builds has a URL that begins with the
\* endpoint text followed by /slurm/v0.0.38/, whether or not the endpoint
\* has a path component and whether or not it ends in a slash.
C1_UrlUnderEndpoint ==
    (rb.built /\ rb.out.ok /\ client.kind = "Slurm") =>
        IsPrefix(WithOneSlash(client.endpoint) \o <<"slurm", "/", "v0.0.38", "/">>,
                 UrlText(rb.out.req.url))

\* C2: every request a SlurmDB client builds has the URL of the base endpoint
\* joined with slurmdb/v0.0.38/ and the path, and is not under slurm/v0.0.38/.
C2_SlurmDBNamespace ==
    (rb.built /\ rb.out.ok /\ client.kind = "SlurmDB") =>
        /\ rb.out.req.url.path =
              UrlJoin(UrlParse(client.endpoint),
                      <<"slurmdb", "/", "v0.0.38", "/">> \o rb.path).path
        /\ ~Contains(UrlText(rb.out.req.url), <<"/", "slurm", "/", "v0.0.38", "/">>)

StatusNumber(s) == CASE s = 404 -> <<"404">> [] s = 503 -> <<"503">> [] OTHER -> <<"200">>

\* C3 as stated: a call whose response has a status other than 200 returns
\* an error carrying the status code and the body text, and the body is never
\* JSON-decoded.
C3_Non200CarriesStatusAndBody ==
    \A t \in Tasks :
        (calls[t].pc = "done" /\ calls[t].resp.have /\ calls[t].resp.status # 200) =>
            /\ calls[t].res.kind = "protocol"
            /\ Contains(calls[t].res.msg, StatusNumber(calls[t].resp.status))
            /\ Contains(calls[t].res.msg, calls[t].resp.body.text)
            /\ ~calls[t].decoded

\* C3, amended: a call whose response has a status other than 200 returns an
\* error and never JSON-decodes the body; the error carries the status code
\* and the body text whenever the body could be read, and is the transport
\* error of the read when it could not.
C3_Non200IsErrorWithoutDecode ==
    \A t \in Tasks :
        (calls[t].resp.have /\ calls[t].resp.status # 200) =>
            /\ ~calls[t].decoded
            /\ calls[t].pc \in {"text", "done"}
            /\ calls[t].pc = "done" =>
                /\ calls[t].res.kind \in {"protocol", "transport"}
                /\ calls[t].read = "ok" =>
                    /\ calls[t].res.kind = "protocol"
                    /\ Contains(calls[t].res.msg, StatusNumber(calls[t].resp.status))
                    /\ Contains(calls[t].res.msg, calls[t].resp.body.text)
                /\ calls[t].read = "failed" => calls[t].res.kind = "transport"

C3_Witness ==
    /\ calls[1].pc = "done" /\ calls[1].method = "get_partitions"
    /\ calls[1].resp.status = 503 /\ calls[1].resp.body = OverloadedBody
    /\ calls[1].res.kind = "protocol"

\* C4: decoding a well-typed document in which a field is absent succeeds,
\* for every response struct and every field of every struct in it, and an
\* absent field of the response struct itself has its default value.
C4_AbsentFieldNeverFails ==
    (dec.done /\ dec.T \in ResponseTypes) =>
        /\ dec.res.ok
        /\ \A i \in 1..Len(Schema[dec.T]) :
              Schema[dec.T][i].key \notin DOMAIN dec.doc.v =>
                  dec.res.v.v[Schema[dec.T][i].name] = DefaultOf(Schema[dec.T][i].ty)

\* C5: a request built for GET or DELETE has no body even when one is
\* supplied; a request built for any other method has the JSON text of the
\* supplied body.
C5_BodyOnlyForNonGetDelete ==
    (rb.built /\ rb.out.ok) =>
        IF rb.method \in {"GET", "DELETE"}
        THEN ~rb.out.req.body.some
        ELSE /\ rb.out.req.body.some
             /\ rb.body.t = "unit" => rb.out.req.body.text = <<"null">>
             /\ rb.body.t = "str" => rb.out.req.body.text = <<"\"">> \o rb.body.v \o <<"\"">>

C5_Witness ==
    /\ rb.built /\ rb.out.ok /\ rb.method = "DELETE" /\ rb.body.t = "str"
    /\ client.kind = "SlurmDB"

\* C6: when any of the three environment variables is unset, new_from_env
\* panics with a message naming an unset variable, makes no client, and no
\* request has been sent.
C6_MissingEnvIsFatal ==
    (proc # "start" /\ \E i \in 1..Len(EnvVars) : ~env[EnvVars[i]].set) =>
        /\ proc = "panicked"
        /\ \E i \in 1..Len(EnvVars) :
              ~env[EnvVars[i]].set /\ panic = <<"env variable", EnvVars[i], "should be set">>
        /\ client = NoClient
        /\ \A t \in Tasks : calls[t].pc = "idle" /\ calls[t].sent = 0

C6_Witness ==
    /\ proc = "panicked"
    /\ env["X_SLURM_ENDPOINT"].set /\ ~env["X_SLURM_USER_NAME"].set /\ ~env["X_SLURM_USER_TOKEN"].set
    /\ panic = <<"env variable", "X_SLURM_USER_NAME", "should be set">>

\* the errors array of a body, as the caller should find it in the result
ErrorsOf(body) ==
    IF body = ErrorsBody
    THEN JArr(<< JObj([error |-> JStr(<<"boom">>), error_number |-> JInt(1)]) >>)
    ELSE JArr(<<>>)

\* C7: a call whose response is 200 with a body that decodes succeeds
\* whatever the errors array holds, and the result holds that array.
C7_UpstreamErrorsAreData ==
    \A t \in Tasks :
        (calls[t].pc = "done" /\ calls[t].resp.have /\ calls[t].resp.status = 200
            /\ calls[t].read = "ok" /\ calls[t].resp.body \in {EmptyBody, ErrorsBody}) =>
            /\ calls[t].res.kind = "ok"
            /\ calls[t].res.value.v["errors"] = ErrorsOf(calls[t].resp.body)

C7_Witness ==
    /\ calls[1].pc = "done" /\ calls[1].method = "get_nodes"
    /\ calls[1].resp.status = 200 /\ calls[1].resp.body = ErrorsBody
    /\ calls[1].res.kind = "ok"
    /\ Len(calls[1].res.value.v["errors"].v) = 1

\* C8 as stated: every completed call has sent exactly one request, whatever
\* its outcome.
C8_ExactlyOneRequest ==
    \A t \in Tasks :
        /\ calls[t].sent <= 1
        /\ calls[t].pc = "done" => calls[t].sent = 1

\* C8, amended: a call hands at most one request to client.execute; it has
\* sent exactly one once it awaits or has had an outcome of the transport,
\* the status or the decoding, and none when building the request failed.
C8_OneRequestUnlessBuildFails ==
    \A t \in Tasks :
        /\ calls[t].sent <= 1
        /\ calls[t].pc \in {"executing", "text", "json"} => calls[t].sent = 1
        /\ calls[t].pc = "done" =>
              calls[t].sent = (IF calls[t].res.kind = "build" THEN 0 ELSE 1)

C8_Witness ==
    /\ calls[1].pc = "done" /\ calls[1].res.kind = "decode" /\ calls[1].sent = 1
    /\ calls[1].method = "get_diag"

\* C9: with a control character in the user name or the token, or an
\* endpoint that cannot be joined, a call ends with the builder's error, the
\* process goes on, and no request is sent.
C9_BuildErrorIsPropagated ==
    \A t \in Tasks :
        (calls[t].pc # "idle"
            /\ (HasControl(client.user) \/ HasControl(client.token)
                    \/ Head(client.endpoint) \in OpaqueUrls)) =>
            /\ calls[t].pc = "done"
            /\ calls[t].res.kind = "build"
            /\ calls[t].sent = 0 /\ ~calls[t].resp.have
            /\ proc = "ready" /\ panic = NoPanic

C9_Witness ==
    /\ calls[1].pc = "done" /\ calls[1].res.kind = "build"
    /\ calls[1].res.msg = <<"header value">>
    /\ ~HasControl(client.user) /\ HasControl(client.token)
    /\ calls[1].method = "ping"

\* What the call of task t must be, from its own method, argument and
\* response alone.
CallIsItsOwn(t) ==
    LET c == calls[t]
        b == Request(client, "GET", EndpointPath(c.method, c.arg), Unit, NoQuery)
    IN  c.pc # "idle" =>
            /\ b.ok => c.req = b.req
            /\ ~b.ok => c.pc = "done" /\ c.res = BuildFailure(b.err)
            /\ (c.pc = "done" /\ c.read = "ok") =>
                  c.res = IF c.resp.status = 200
                          THEN JsonOutcome(ResponseType(c.method), c.resp.body)
                          ELSE ProtocolFailure(c.resp.status, c.resp.body.text)

\* C10: no step of any call, in any interleaving, changes the client, and
\* in every state each call's request and outcome are those of its own
\* method, argument and response.
C10_CallsAreIndependent ==
    /\ [][client' = client]_vars
    /\ [](\A t \in Tasks : CallIsItsOwn(t))

C10_Witness ==
    /\ calls[1].pc = "done" /\ calls[1].res.kind = "ok" /\ calls[1].method = "get_node"
    /\ calls[2].pc = "text" /\ calls[2].method = "ping"
    /\ calls[2].resp.body # calls[1].resp.body

RECURSIVE Conforms(_, _, _)
\* Whether document j is of field type ty as the struct declarations give
\* it: the JSON type of every value is the declared one, a null stands only
\* for an Option, and an object lacks only keys that have a default or are
\* an Option.  With seqs, a JSON array also stands for a struct: its
\* elements are the fields in the order of declaration, and it may lack
\* only trailing fields that have a default.
Conforms(ty, j, seqs) ==
    CASE Head(ty) = "opt" -> j.t = "null" \/ Conforms(Tail(ty), j, seqs)
      [] Head(ty) = "str" -> j.t = "str"
      [] Head(ty) = "i64" -> j.t \in {"int", "long"}
      [] Head(ty) = "i32" -> j.t = "int"
      [] Head(ty) = "f64" -> j.t \in {"int", "long", "huge", "float"}
      [] Head(ty) = "bool" -> j.t = "bool"
      [] Head(ty) = "vec" ->
            j.t = "arr" /\ \A i \in 1..Len(j.v) : Conforms(Tail(ty), j.v[i], seqs)
      [] Head(ty) = "struct" ->
            LET fs == Schema[ty[2]]
            IN  \/ /\ j.t = "obj"
                   /\ \A i \in 1..Len(fs) :
                        IF fs[i].key \in DOMAIN j.v
                        THEN Conforms(fs[i].ty, j.v[fs[i].key], seqs)
                        ELSE fs[i].dflt \/ Head(fs[i].ty) = "opt"
                \/ /\ seqs /\ j.t = "arr" /\ Len(j.v) <= Len(fs)
                   /\ \A i \in 1..Len(fs) :
                        IF i <= Len(j.v) THEN Conforms(fs[i].ty, j.v[i], seqs)
                        ELSE fs[i].dflt

\* the 200 response of call c was read and is not the response struct of
\* its method
Mismatched(c, seqs) ==
    /\ c.pc = "done" /\ c.resp.have /\ c.resp.status = 200 /\ c.read = "ok"
    /\ ~(c.resp.body.json /\ Conforms(<<"struct", ResponseType(c.method)>>, c.resp.body.doc, seqs))

\* C12 as stated: a call whose 200 response body does not match the schema
\* of its response struct returns a decode error and no typed value.
C12_MismatchIsError ==
    \A t \in Tasks :
        Mismatched(calls[t], FALSE) =>
            calls[t].res.kind = "decode" /\ calls[t].res.value = JNull

\* C12, amended: a call whose 200 response body is not JSON, has a value of
\* the wrong JSON type, lacks a required key, or holds a malformed element,
\* returns a decode error and no typed value, where a JSON array in the place
\* of a struct counts as that struct given by position.
C12_UnreadableIsError ==
    \A t \in Tasks :
        Mismatched(calls[t], TRUE) =>
            calls[t].res.kind = "decode" /\ calls[t].res.value = JNull

C12_Witness ==
    /\ calls[1].pc = "done" /\ calls[1].method = "get_reservations"
    /\ calls[1].resp.status = 200 /\ calls[1].resp.body = OneBadElementBody
    /\ calls[1].read = "ok" /\ calls[1].res.kind = "decode"

\* the values request r carries under header name n, in order
HeaderValues(r, n) ==
    LET at == {i \in 1..Len(r.headers) : r.headers[i].name = n}
        RECURSIVE pick(_)
        pick(i) == IF i > Len(r.headers) THEN <<>>
                   ELSE (IF i \in at THEN <<r.headers[i].value>> ELSE <<>>) \o pick(i + 1)
    IN  pick(1)

\* C13: every request the builder produces carries x-slurm-user-name with
\* the client's user, x-slurm-user-token with the client's token and one
\* content-type of application/json, under lower-case names and with no
\* other header, whatever the method and whether or not a body is attached.
C13_ExactlyThreeHeaders ==
    (rb.built /\ rb.out.ok) =>
        LET r == rb.out.req
        IN  /\ Len(r.headers) = 3
            /\ HeaderValues(r, <<"x","-","s","l","u","r","m","-","u","s","e","r","-","n","a","m","e">>)
                    = <<client.user>>
            /\ HeaderValues(r, <<"x","-","s","l","u","r","m","-","u","s","e","r","-","t","o","k","e","n">>)
                    = <<client.token>>
            /\ HeaderValues(r, <<"c","o","n","t","e","n","t","-","t","y","p","e">>)
                    = << <<"application/json">> >>

C13_Witness ==
    /\ rb.built /\ rb.out.ok /\ rb.method = "PUT" /\ rb.out.req.body.some
    /\ client.kind = "Slurm" /\ client.user = <<"u">> /\ client.token = <<"tok">>
    /\ Len(rb.out.req.headers) = 3

\* C14 as stated: every Partition, Node and Reservation value that was
\* encoded and decoded back is decoded without error to the value it was.
C14_RoundTrip ==
    (dec.enc /\ dec.done) => (dec.res.ok /\ dec.res.v = dec.val)

\* C14, amended: the value that was encoded and decoded back is decoded
\* without error; it is the value it was when no float in it is NaN or an
\* infinity, and has None in the place of such a float otherwise.
C14_RoundTripOfFinite ==
    (dec.enc /\ dec.done) =>
        /\ dec.res.ok
        /\ \A n \in DOMAIN dec.val.v :
              dec.res.v.v[n] = IF dec.val.v[n] = NonFinite THEN JNull ELSE dec.val.v[n]

C14_Witness ==
    /\ dec.enc /\ dec.done /\ dec.T = "Partition" /\ dec.res.ok
    /\ dec.val.v["allowed_accounts"] = JStr(<<>>)
    /\ dec.val.v["flags"] = JArr(<<>>)
    /\ dec.val.v["priority_tier"] = JNull
    /\ dec.val.v["maximum_nodes_per_job"] = JLong(1)
    /\ dec.res.v = dec.val

\* the path each method is to request, after the versioned prefix
FixedPath(m) ==
    CASE m = "ping" -> <<"ping">>
      [] m = "get_nodes" -> <<"nodes">>
      [] m = "get_partitions" -> <<"partitions">>
      [] m = "get_reservations" -> <<"reservations">>
      [] m = "get_diag" -> <<"diag">>
      [] m = "get_node" -> <<"node", "/">>
      [] m = "get_partition" -> <<"partition", "/">>
      [] m = "get_reservation" -> <<"reservation", "/">>

\* C15: the request of every call is a GET of the endpoint, the versioned
\* prefix and the method's path, which for a lookup ends in the identifier
\* as it was passed, with no query and no fragment; and a call answered 200
\* with a list of the one node teach-gpu-n0 returns a list of that node.
C15_LookupPathAndResult ==
    \A t \in Tasks :
        /\ calls[t].sent = 1 =>
              /\ calls[t].req.method = "GET"
              /\ UrlText(calls[t].req.url) =
                    client.endpoint \o <<"slurm", "/", "v0.0.38", "/">>
                        \o FixedPath(calls[t].method) \o calls[t].arg
              /\ ~calls[t].req.url.hasQuery /\ ~calls[t].req.url.hasFragment
        /\ (calls[t].pc = "done" /\ calls[t].method = "get_node" /\ calls[t].read = "ok"
                /\ calls[t].resp.status = 200 /\ calls[t].resp.body = OneNodeBody) =>
              /\ calls[t].res.kind = "ok"
              /\ Len(calls[t].res.value.v["nodes"].v) = 1
              /\ calls[t].res.value.v["nodes"].v[1].v["name"] = JStr(<<"teach-gpu-n0">>)

=============================================================================
